---- MODULE Spec2Model ----
(***************************************************************************)
(* Model of the job status tracker (src/job_status_tracker_gsheets.py).    *)
(*                                                                         *)
(* Strings are sequences of tokens (a token is a word, a separator or a    *)
(* blank), so that strip(), lower() and the substring test `p in t` are    *)
(* computed, not assumed.  Python's None is the empty sequence for a       *)
(* tenant (both are falsy at `if tenant:`) and -1 for a column index.      *)
(* A dict is a sequence of <<key, value>> pairs in insertion order.        *)
(***************************************************************************)
EXTENDS Integers, Sequences, FiniteSets, TLC

\* ------------------------------------------------------------------ bounds

\* Data rows in the whole record store (all worksheets together).
MaxRows == 2

\* Fragments a page text is assembled from in SpecClassify.
MaxFrags == 2

\* Runs of main() in SpecRuns.
MaxRuns == 2

\* The most digits after "wd" in a host name.
MaxDigits == 2

\* The most tenants in a credential cache.
MaxTenants == 2

\* ------------------------------------------------------------ string helpers

Blank == " "

IsBlank(tok) == tok = Blank

RECURSIVE LStrip(_)
LStrip(s) ==
    IF s # <<>> /\ IsBlank(Head(s)) THEN LStrip(Tail(s)) ELSE s

RECURSIVE RStrip(_)
RStrip(s) ==
    IF s # <<>> /\ IsBlank(s[Len(s)]) THEN RStrip(SubSeq(s, 1, Len(s) - 1)) ELSE s

\* str.strip()
Strip(s) == RStrip(LStrip(s))

\* str.lower() on one token: the tokens of the model that have upper-case letters.
LowerTok(tok) ==
    CASE tok = "URL" -> "url"
      [] tok = "Url" -> "url"
      [] tok = "Decision" -> "decision"
      [] tok = "DECISION" -> "decision"
      [] tok = "Notes" -> "notes"
      [] tok = "HTTPS://" -> "https://"
      [] tok = "MyWorkdayJobs" -> "myworkdayjobs"
      [] tok = "LinkedIn" -> "linkedin"
      [] tok = "Acme" -> "acme"
      [] tok = "WD" -> "wd"
      [] tok = "Not" -> "not"
      [] tok = "Selected" -> "selected"
      [] tok = "In" -> "in"
      [] tok = "Progress" -> "progress"
      [] tok = "Under" -> "under"
      [] tok = "Review" -> "review"
      [] tok = "Your" -> "your"
      [] tok = "Application" -> "application"
      [] tok = "Position" -> "position"
      [] tok = "Filled" -> "filled"
      [] tok = "Viewed" -> "viewed"
      [] tok = "Submitted" -> "submitted"
      [] tok = "Welcome" -> "welcome"
      [] OTHER -> tok

\* str.lower()
Lower(s) == [k \in 1..Len(s) |-> LowerTok(s[k])]

\* `p in t` for strings: p occurs in t as a contiguous run.
Contains(t, p) ==
    \E k \in 0..(Len(t) - Len(p)) : SubSeq(t, k + 1, k + Len(p)) = p

\* `for p in patterns: if p in t` finds a match.
AnyIn(patterns, t) == \E j \in 1..Len(patterns) : Contains(t, patterns[j])

\* ---------------------------------------------------------------- patterns

CLOSED_PATTERNS ==
    << <<"no", " ", "longer", " ", "accepting", " ", "applications">>,
       <<"no", " ", "longer", " ", "available">>,
       <<"job", " ", "has", " ", "expired">>,
       <<"position", " ", "has", " ", "been", " ", "filled">>,
       <<"position", " ", "filled">>,
       <<"job", " ", "is", " ", "closed">>,
       <<"this", " ", "job", " ", "is", " ", "closed">>,
       <<"no", " ", "longer", " ", "posted">>,
       <<"no", " ", "longer", " ", "active">> >>

\* The second phrase is written with a typographic apostrophe in the source; the
\* token "you're" stands for that spelling.
LINKEDIN_REJECT_PATTERNS ==
    << <<"no", " ", "longer", " ", "being", " ", "considered", " ", "for", " ", "this", " ", "job">>,
       <<"you're", " ", "no", " ", "longer", " ", "being", " ", "considered">>,
       <<"you", " ", "are", " ", "no", " ", "longer", " ", "in", " ", "consideration">> >>

LINKEDIN_REVIEW_PATTERNS ==
    << <<"your", " ", "application", " ", "is", " ", "under", " ", "review">>,
       <<"your", " ", "application", " ", "is", " ", "being", " ", "reviewed">> >>

LINKEDIN_VIEWED_PATTERNS ==
    << <<"your", " ", "application", " ", "has", " ", "been", " ", "viewed">>,
       <<"your", " ", "application", " ", "was", " ", "viewed">> >>

LINKEDIN_SUBMITTED_PATTERNS ==
    << <<"we", " ", "received", " ", "your", " ", "application">>,
       <<"application", " ", "submitted">> >>

WORKDAY_REJECT_PATTERNS ==
    << <<"no", " ", "longer", " ", "in", " ", "consideration">>,
       <<"not", " ", "selected">>,
       <<"no", " ", "longer", " ", "being", " ", "considered">> >>

WORKDAY_INPROCESS_PATTERNS ==
    << <<"in", " ", "progress">>,
       <<"under", " ", "review">>,
       <<"under", " ", "consideration">> >>

\* ------------------------------------------------------------ pure helpers

DomainMarker(name) ==
    CASE name = "linkedin" -> <<"linkedin", ".", "com">>
      [] name = "workday" -> <<"myworkdayjobs", ".", "com">>
      [] name = "greenhouse" -> <<"greenhouse", ".", "io">>
      [] name = "lever" -> <<"lever", ".", "co">>
      [] name = "taleo" -> <<"taleo", ".", "net">>
      [] name = "smartrecruiters" -> <<"smartrecruiters", ".", "com">>

detect_domain(url) ==
    LET u == Lower(url) IN
    IF Contains(u, DomainMarker("linkedin")) THEN "linkedin"
    ELSE IF Contains(u, DomainMarker("workday")) THEN "workday"
    ELSE IF Contains(u, DomainMarker("greenhouse")) THEN "greenhouse"
    ELSE IF Contains(u, DomainMarker("lever")) THEN "lever"
    ELSE IF Contains(u, DomainMarker("taleo")) THEN "taleo"
    ELSE IF Contains(u, DomainMarker("smartrecruiters")) THEN "smartrecruiters"
    ELSE "generic"

IsDigit(tok) == tok \in {"0", "1", "2", "3", "4", "5", "6", "7", "8", "9"}

\* The regular expression https://([^\.]+)\.wd\d+\.myworkdayjobs\.com matched at
\* token a with the group ending at token b (case-sensitive, as re.search is).
TenantMatchAt(url, a, b) ==
    /\ url[a] = "https://"
    /\ a < b
    /\ \A k \in (a + 1)..b : url[k] # "."
    /\ \E d \in (b + 3)..(Len(url) - 4) :
          /\ url[b + 1] = "."
          /\ url[b + 2] = "wd"
          /\ \A k \in (b + 3)..d : IsDigit(url[k])
          /\ url[d + 1] = "."
          /\ url[d + 2] = "myworkdayjobs"
          /\ url[d + 3] = "."
          /\ url[d + 4] = "com"

\* re.search returns the leftmost match; [^\.]+ cannot cross a dot, so the group
\* of a match starting at a is the run of tokens up to the next dot.
extract_workday_tenant(url) ==
    LET starts == {a \in 1..Len(url) : \E b \in a..Len(url) : TenantMatchAt(url, a, b)}
    IN  IF starts = {} THEN <<>>
        ELSE LET a == CHOOSE x \in starts : \A y \in starts : x <= y
                 b == CHOOSE y \in a..Len(url) : TenantMatchAt(url, a, y)
             IN  SubSeq(url, a + 1, b)

\* classify_status with Workday's in-process phrases tested before its reject
\* phrases and LinkedIn's viewed phrases before its review phrases.
classify_status_swapped(text, domain) ==
    LET t == Lower(text) IN
    IF domain = "linkedin" THEN
        IF AnyIn(LINKEDIN_REJECT_PATTERNS, t) THEN <<"APPLICATION REJECTED (LinkedIn)">>
        ELSE IF AnyIn(LINKEDIN_VIEWED_PATTERNS, t) THEN <<"APPLICATION VIEWED (LinkedIn)">>
        ELSE IF AnyIn(LINKEDIN_REVIEW_PATTERNS, t) THEN <<"APPLICATION UNDER REVIEW (LinkedIn)">>
        ELSE IF AnyIn(LINKEDIN_SUBMITTED_PATTERNS, t) THEN <<"APPLICATION SUBMITTED (LinkedIn)">>
        ELSE IF AnyIn(CLOSED_PATTERNS, t) THEN <<"JOB CLOSED (LinkedIn)">>
        ELSE <<"UNKNOWN (LinkedIn)">>
    ELSE IF domain = "workday" THEN
        IF AnyIn(WORKDAY_INPROCESS_PATTERNS, t) THEN <<"APPLICATION IN PROCESS (Workday)">>
        ELSE IF AnyIn(WORKDAY_REJECT_PATTERNS, t) THEN <<"APPLICATION REJECTED (Workday)">>
        ELSE IF AnyIn(CLOSED_PATTERNS, t) THEN <<"JOB CLOSED (Workday)">>
        ELSE <<"UNKNOWN (Workday)">>
    ELSE IF AnyIn(CLOSED_PATTERNS, t) THEN <<"JOB CLOSED (", domain, ")">>
    ELSE <<"UNKNOWN (", domain, ")">>

\* classify_status without the closed-phrase test for the domains that have no
\* phrases of their own.
classify_status_no_fallback(text, domain) ==
    LET t == Lower(text) IN
    IF domain = "linkedin" THEN
        IF AnyIn(LINKEDIN_REJECT_PATTERNS, t) THEN <<"APPLICATION REJECTED (LinkedIn)">>
        ELSE IF AnyIn(LINKEDIN_REVIEW_PATTERNS, t) THEN <<"APPLICATION UNDER REVIEW (LinkedIn)">>
        ELSE IF AnyIn(LINKEDIN_VIEWED_PATTERNS, t) THEN <<"APPLICATION VIEWED (LinkedIn)">>
        ELSE IF AnyIn(LINKEDIN_SUBMITTED_PATTERNS, t) THEN <<"APPLICATION SUBMITTED (LinkedIn)">>
        ELSE IF AnyIn(CLOSED_PATTERNS, t) THEN <<"JOB CLOSED (LinkedIn)">>
        ELSE <<"UNKNOWN (LinkedIn)">>
    ELSE IF domain = "workday" THEN
        IF AnyIn(WORKDAY_REJECT_PATTERNS, t) THEN <<"APPLICATION REJECTED (Workday)">>
        ELSE IF AnyIn(WORKDAY_INPROCESS_PATTERNS, t) THEN <<"APPLICATION IN PROCESS (Workday)">>
        ELSE IF AnyIn(CLOSED_PATTERNS, t) THEN <<"JOB CLOSED (Workday)">>
        ELSE <<"UNKNOWN (Workday)">>
    ELSE <<"UNKNOWN (", domain, ")">>

classify_status(text, domain) ==
    LET t == Lower(text) IN
    IF domain = "linkedin" THEN
        IF AnyIn(LINKEDIN_REJECT_PATTERNS, t) THEN <<"APPLICATION REJECTED (LinkedIn)">>
        ELSE IF AnyIn(LINKEDIN_REVIEW_PATTERNS, t) THEN <<"APPLICATION UNDER REVIEW (LinkedIn)">>
        ELSE IF AnyIn(LINKEDIN_VIEWED_PATTERNS, t) THEN <<"APPLICATION VIEWED (LinkedIn)">>
        ELSE IF AnyIn(LINKEDIN_SUBMITTED_PATTERNS, t) THEN <<"APPLICATION SUBMITTED (LinkedIn)">>
        ELSE IF AnyIn(CLOSED_PATTERNS, t) THEN <<"JOB CLOSED (LinkedIn)">>
        ELSE <<"UNKNOWN (LinkedIn)">>
    ELSE IF domain = "workday" THEN
        IF AnyIn(WORKDAY_REJECT_PATTERNS, t) THEN <<"APPLICATION REJECTED (Workday)">>
        ELSE IF AnyIn(WORKDAY_INPROCESS_PATTERNS, t) THEN <<"APPLICATION IN PROCESS (Workday)">>
        ELSE IF AnyIn(CLOSED_PATTERNS, t) THEN <<"JOB CLOSED (Workday)">>
        ELSE <<"UNKNOWN (Workday)">>
    ELSE IF AnyIn(CLOSED_PATTERNS, t) THEN <<"JOB CLOSED (", domain, ")">>
    ELSE <<"UNKNOWN (", domain, ")">>


\* find_columns: 0-based column indices, -1 for None; a later match replaces an
\* earlier one.
\* LastColumn with column 0 for a name that is not in the header.
RECURSIVE LastColumnZero(_, _, _)
LastColumnZero(header_row, name, n) ==
    IF n = 0 THEN 0
    ELSE IF Lower(Strip(header_row[n])) = name THEN n - 1
    ELSE LastColumnZero(header_row, name, n - 1)

RECURSIVE LastColumn(_, _, _)
LastColumn(header_row, name, n) ==
    IF n = 0 THEN -1
    ELSE IF Lower(Strip(header_row[n])) = name THEN n - 1
    ELSE LastColumn(header_row, name, n - 1)

find_columns(header_row) ==
    << LastColumn(header_row, <<"url">>, Len(header_row)),
       LastColumn(header_row, <<"decision">>, Len(header_row)) >>

\* ------------------------------------------------------------------- dicts

DictHas(d, k) == \E j \in 1..Len(d) : d[j][1] = k

DictGet(d, k) == d[CHOOSE j \in 1..Len(d) : d[j][1] = k][2]

DictSet(d, k, v) ==
    IF DictHas(d, k)
    THEN [j \in 1..Len(d) |-> IF d[j][1] = k THEN <<k, v>> ELSE d[j]]
    ELSE Append(d, <<k, v>>)

DictKeys(d) == {d[j][1] : j \in 1..Len(d)}

\* ------------------------------------------------------- credential cache

Quote(s) == <<"\"">> \o s \o <<"\"">>

Unquote(s) == SubSeq(s, 2, Len(s) - 1)

NumTok(n) == CASE n = 1 -> "1" [] n = 2 -> "2" [] OTHER -> "?"

\* TokNum reading every number as 1.
TokNumOne(tok) == 1

TokNum(tok) == CASE tok = "1" -> 1 [] tok = "2" -> 2 [] OTHER -> 0

\* json.dump(cache, f, indent=2): one "key": number member per entry.
json_dump(cache) ==
    [j \in 1..Len(cache) |-> <<Quote(cache[j][1]), NumTok(cache[j][2])>>]

RECURSIVE json_load(_)
json_load(text) ==
    IF text = <<>> THEN <<>>
    ELSE LET n == Len(text)
         IN  DictSet(json_load(SubSeq(text, 1, n - 1)),
                     Unquote(text[n][1]), TokNum(text[n][2]))

FileAbsent == [kind |-> "absent", text |-> <<>>]

FileCorrupt == [kind |-> "corrupt", text |-> <<>>]

FileOf(cache) == [kind |-> "json", text |-> json_dump(cache)]

load_workday_cache(file) ==
    IF file.kind = "json" THEN json_load(file.text) ELSE <<>>

\* save_workday_cache writing an empty object.
save_empty_cache(cache) == FileOf(<<>>)

save_workday_cache(cache) == FileOf(cache)

\* --------------------------------------------------------- workday login

\* AttemptOrder with the cache ignored.
AttemptOrderDefault(cache, t) == <<1, 2>>

\* AttemptOrder with the second password first unless the cache says 1.
AttemptOrderSecondFirst(cache, t) ==
    IF DictHas(cache, t) /\ DictGet(cache, t) = 1 THEN <<1, 2>> ELSE <<2, 1>>

\* workday_try_login, lines 208-213: the order of the credential indices.
AttemptOrder(cache, t) ==
    IF DictHas(cache, t) /\ DictGet(cache, t) = 2 THEN <<2, 1>> ELSE <<1, 2>>

\* CacheOnSuccess with the dict replaced instead of updated.
CacheOnSuccessFresh(cache, t, idx) == << <<t, idx>> >>

\* workday_try_login, line 220.
CacheOnSuccess(cache, t, idx) == DictSet(cache, t, idx)

\* NeedsWorkdayLogin with the domain test dropped.
NeedsLoginAnyDomain(d, t) == t # <<>>

\* process_worksheet, lines 347-350: the rows a Workday login is run for.
NeedsWorkdayLogin(d, t) == d = "workday" /\ t # <<>>

\* ------------------------------------------------------------ row handling

\* sheet_row_idx without the step from the 0-based index to the 1-based row.
sheet_row_idx_same(n) == n

\* process_worksheet, line 328.
sheet_row_idx(n) == n + 1

\* process_worksheet, lines 330-341: the stripped URL of a row that is to be
\* visited, <<>> for a row that is skipped.
CellOrEmpty(row, idx) == IF Len(row) > idx /\ row[idx + 1] # <<>> THEN Strip(row[idx + 1]) ELSE <<>>

\* RowUrl with the test of the Decision cell removed (the force-refresh variant).
RowUrlRefresh(row, uidx, didx) ==
    IF Len(row) <= (IF uidx > didx THEN uidx ELSE didx) THEN <<>>
    ELSE CellOrEmpty(row, uidx)

RowUrl(row, uidx, didx) ==
    IF Len(row) <= (IF uidx > didx THEN uidx ELSE didx) THEN <<>>
    ELSE IF CellOrEmpty(row, uidx) = <<>> THEN <<>>
    ELSE IF CellOrEmpty(row, didx) # <<>> THEN <<>>
    ELSE CellOrEmpty(row, uidx)

\* ws.update_cell(row, col, value), 1-based.
update_cell(table, r, c, value) == [table EXCEPT ![r][c] = value]


\* ------------------------------------------------------------------- state

VARIABLES
    sheets,              \* the record store: one table (header row, data rows) per worksheet
    cacheFile,           \* workday_cache.json
    env,                 \* which credentials .env holds
    pc,                  \* where main() is
    workday_cache,       \* main's workday_cache dict
    linkedin_logged_in,  \* main's linkedin_logged_in
    ws,                  \* position of the current worksheet in sh.worksheets()
    values,              \* process_worksheet's values
    cols,                \* <<url_idx, decision_idx>>
    i,                   \* process_worksheet's loop index
    updated,             \* process_worksheet's updated
    total_updated,       \* main's total_updated
    url,                 \* the stripped URL of the current row
    domain,              \* its domain
    tenant,              \* its tenant
    order,               \* workday_try_login's order
    tried,               \* the indices workday_try_login has attempted for the current row
    loginResult,         \* what workday_try_login returned for the current row
    content,             \* process_worksheet's content
    status,              \* process_worksheet's status
    run,                 \* history: the number of the run
    startSheets,         \* history: the record store when the run started
    startCols,           \* history: what find_columns gave for each worksheet of startSheets
    written,             \* history: the cells written in this run, <<worksheet, row, column>>
    loginCalls,          \* history: login invocations of this run, per domain
    cacheBefore,         \* history: workday_cache when workday_try_login was entered
    loginRows,           \* history: the rows <<worksheet, i, domain>> of this run workday_try_login was called for, in order
    fetchFailed,         \* history: the rows of this run whose page fetch failed
    handled,             \* history: the rows of this run whose handling ended with the next row begun
    opened,              \* history: the worksheets process_worksheet was called for
    saveTried,           \* history: save_workday_cache was called
    booted,              \* history: the run got past get_gsheet and the browser launch
    won,                 \* history: tenant -> the index that last succeeded in this run
    kept,                \* history: tenant -> the index that succeeded in the previous run, if it finished
    learnt,              \* history: the index won or kept for the tenant when workday_try_login was entered, 0 for none
    edited               \* the operator has edited the record store since the last run exited

storeVars == <<sheets, cacheFile, env>>

mainVars == <<workday_cache, linkedin_logged_in, ws, total_updated>>

sheetVars == <<values, cols, i, updated>>

rowVars == <<url, domain, tenant, order, tried, loginResult, content, status>>

histVars == <<run, startSheets, startCols, written, loginCalls, cacheBefore, loginRows, fetchFailed,
              handled, opened, saveTried, booted, won, kept, learnt, edited>>

vars == <<storeVars, pc, mainVars, sheetVars, rowVars, histVars>>

\* ------------------------------------------------------------ initial data

UrlAcme == <<"https://", "acme", ".", "wd", "3", ".", "myworkdayjobs", ".", "com", "/", "job">>

UrlBeta ==
    <<" ", "https://", "beta", ".", "wd", "1", "2", ".", "myworkdayjobs", ".", "com", "/", "job", " ">>

\* A Workday posting reached from LinkedIn: the URL names both hosts.
UrlShared ==
    <<"https://", "acme", ".", "wd", "3", ".", "myworkdayjobs", ".", "com", "/", "job",
      "?", "src", "=", "LinkedIn", ".", "com">>

TenantAcme == <<"acme">>

TenantBeta == <<"beta">>

\* The rows of a worksheet: to classify, classified by hand, with a Decision of
\* white space, without a URL.
RowKinds ==
    { [url |-> UrlAcme, decision |-> <<>>],
      [url |-> UrlShared, decision |-> <<>>],
      [url |-> UrlAcme, decision |-> <<"Applied">>],
      [url |-> UrlBeta, decision |-> <<" ">>],
      [url |-> <<>>, decision |-> <<>>] }

\* A header row with both columns (matched after strip() and lower()), and one
\* without a Decision column.
HeaderFull == << <<"URL">>, <<"Notes">>, <<" ", "Decision", " ">> >>

HeaderNoDecision == << <<"Url">>, <<"Notes">> >>

HeaderNoUrl == << <<"Link">>, <<"DECISION">> >>

RowFor(h, kind) ==
    [c \in 1..Len(h) |->
        IF Lower(Strip(h[c])) = <<"url">> THEN kind.url
        ELSE IF Lower(Strip(h[c])) = <<"decision">> THEN kind.decision
        ELSE <<"memo">>]

TableOf(h, rows) == <<h>> \o [k \in 1..Len(rows) |-> RowFor(h, rows[k])]

\* The tables with n data rows: every choice of rows under the full header, one
\* table under the header without Decision (its rows are never read), for n = 1
\* one under the header without URL, and, for n = 0, the worksheet without any
\* cell, which reads as [].
TablesOf(n) ==
    {TableOf(HeaderFull, rows) : rows \in [1..n -> RowKinds]}
        \cup {TableOf(HeaderNoDecision, [k \in 1..n |-> [url |-> UrlAcme, decision |-> <<>>]])}
        \cup (IF n = 1 THEN {TableOf(HeaderNoUrl, <<[url |-> UrlAcme, decision |-> <<>>]>>)} ELSE {})
        \cup (IF n = 0 THEN {<<>>} ELSE {})

Stores ==
    UNION { {<<t1, t2>> : t1 \in TablesOf(n[1]), t2 \in TablesOf(n[2])} :
            n \in {m \in (0..MaxRows) \X (0..MaxRows) : m[1] + m[2] <= MaxRows} }

InitFiles == {FileAbsent, FileOf(<< <<TenantAcme, 2>> >>)}

\* .env: every credential, or LinkedIn's missing, or Workday's.
Envs ==
    { [linkedin |-> TRUE, workday |-> TRUE],
      [linkedin |-> FALSE, workday |-> TRUE],
      [linkedin |-> TRUE, workday |-> FALSE] }

\* What a page fetch gives: a navigation error, or the page's content.
PageTexts == { <<"Not", " ", "Selected", " ", "in", " ", "progress">> }

FetchOutcomes ==
    {[ok |-> FALSE, kind |-> "TimeoutError", content |-> <<>>]}
        \cup {[ok |-> TRUE, kind |-> "", content |-> t] : t \in PageTexts}

NoCalls == [linkedin |-> 0, workday |-> 0, other |-> 0]

RunLocalInit ==
    /\ pc = "start"
    /\ workday_cache = <<>>
    /\ linkedin_logged_in = FALSE
    /\ ws = 1
    /\ total_updated = 0
    /\ values = <<>>
    /\ cols = <<-1, -1>>
    /\ i = 1
    /\ updated = 0
    /\ url = <<>>
    /\ domain = ""
    /\ tenant = <<>>
    /\ order = <<>>
    /\ tried = <<>>
    /\ loginResult = "none"
    /\ content = <<>>
    /\ status = <<>>
    /\ written = {}
    /\ loginCalls = NoCalls
    /\ cacheBefore = <<>>
    /\ loginRows = <<>>
    /\ fetchFailed = {}
    /\ handled = {}
    /\ opened = {}
    /\ saveTried = FALSE
    /\ booted = FALSE
    /\ won = <<>>
    /\ learnt = 0
    /\ edited = FALSE

\* What find_columns gives for the header of each worksheet of a store; a
\* worksheet without any cell has no header and so neither column.
ColumnsOf(store) ==
    [s \in 1..Len(store) |->
        IF store[s] = <<>> THEN <<-1, -1>> ELSE find_columns(store[s][1])]

Init ==
    /\ sheets \in Stores
    /\ cacheFile \in InitFiles
    /\ env \in Envs
    /\ run = 1
    /\ startSheets = sheets
    /\ startCols = ColumnsOf(sheets)
    /\ kept = <<>>
    /\ RunLocalInit


\* ----------------------------------------------------------------- actions

\* main, lines 376-383: get_gsheet, load_workday_cache, the browser launch.
StartRun ==
    /\ pc = "start"
    /\ \E ok \in BOOLEAN :
          IF ok
          THEN /\ workday_cache' = load_workday_cache(cacheFile)
               /\ booted' = TRUE
               /\ pc' = "linkedin"
          ELSE /\ pc' = "crashed"
               /\ UNCHANGED <<workday_cache, booted>>
    /\ UNCHANGED <<storeVars, linkedin_logged_in, ws, total_updated, sheetVars, rowVars>>
    /\ UNCHANGED <<run, startSheets, startCols, written, loginCalls, cacheBefore, loginRows, fetchFailed,
                   handled, opened, saveTried, won, kept, learnt, edited>>

\* main, lines 385-388, and linkedin_login.
LinkedinLogin ==
    /\ pc = "linkedin"
    /\ \E ok \in BOOLEAN : linkedin_logged_in' = (env.linkedin /\ ok)
    /\ loginCalls' = [loginCalls EXCEPT !.linkedin = @ + 1]
    /\ pc' = "sheet"
    /\ UNCHANGED <<storeVars, workday_cache, ws, total_updated, sheetVars, rowVars>>
    /\ UNCHANGED <<run, startSheets, startCols, written, cacheBefore, loginRows, fetchFailed,
                   handled, opened, saveTried, booted, won, kept, learnt, edited>>

\* main, lines 389-393, and process_worksheet, lines 314-324.
OpenSheet ==
    /\ pc = "sheet"
    /\ ws <= Len(sheets)
    /\ opened' = opened \cup {ws}
    /\ \E ok \in BOOLEAN :
          IF ~ok
          THEN /\ pc' = "crashed"
               /\ UNCHANGED <<ws, total_updated, sheetVars>>
          ELSE LET v == sheets[ws]
                   c == IF v = <<>> THEN <<-1, -1>> ELSE find_columns(v[1])
               IN  /\ values' = v
                   /\ cols' = c
                   /\ i' = 1
                   /\ updated' = 0
                   /\ IF v = <<>> \/ c[1] = -1 \/ c[2] = -1
                      THEN /\ total_updated' = total_updated + 0
                           /\ ws' = ws + 1
                           /\ pc' = "sheet"
                      ELSE /\ pc' = "row"
                           /\ UNCHANGED <<ws, total_updated>>
    /\ UNCHANGED <<storeVars, workday_cache, linkedin_logged_in, rowVars>>
    /\ UNCHANGED <<run, startSheets, startCols, written, loginCalls, cacheBefore, loginRows, fetchFailed,
                   handled, saveTried, booted, won, kept, learnt, edited>>

\* main, line 395: every worksheet is done.
CloseBrowser ==
    /\ pc = "sheet"
    /\ ws > Len(sheets)
    /\ pc' = "save"
    /\ UNCHANGED <<storeVars, mainVars, sheetVars, rowVars, histVars>>

\* process_worksheet, lines 326-350: the next data row, up to the page fetch.
\* The locals of the previous row that the code never reads again (tenant,
\* content, status) are cleared here.
RowStart ==
    /\ pc = "row"
    /\ i <= Len(values) - 1
    /\ LET row == values[i + 1]
           u == RowUrl(row, cols[1], cols[2])
           d == detect_domain(u)
           t == extract_workday_tenant(u)
       IN  IF u = <<>>
           THEN /\ i' = i + 1
                /\ handled' = handled \cup {<<ws, i>>}
                /\ UNCHANGED <<pc, workday_cache, rowVars, loginCalls, cacheBefore, loginRows, learnt>>
           ELSE /\ url' = u
                /\ domain' = d
                /\ tried' = <<>>
                /\ content' = <<>>
                /\ status' = <<>>
                /\ UNCHANGED <<i, handled, workday_cache>>
                /\ IF NeedsWorkdayLogin(d, t)
                   THEN /\ tenant' = t
                        /\ loginCalls' =
                              [loginCalls EXCEPT
                                 ![IF d \in {"linkedin", "workday"} THEN d ELSE "other"] = @ + 1]
                        /\ cacheBefore' = workday_cache
                        /\ loginRows' = Append(loginRows, <<ws, i, d>>)
                        /\ learnt' = IF DictHas(won, t) THEN DictGet(won, t)
                                     ELSE IF DictHas(kept, t) THEN DictGet(kept, t)
                                     ELSE 0
                        /\ IF env.workday
                           THEN /\ order' = AttemptOrder(workday_cache, t)
                                /\ loginResult' = "pending"
                                /\ pc' = "attempt"
                           ELSE /\ order' = <<>>
                                /\ loginResult' = "Failed"
                                /\ pc' = "fetch"
                   ELSE /\ tenant' = <<>>
                        /\ order' = <<>>
                        /\ loginResult' = "none"
                        /\ pc' = "fetch"
                        /\ UNCHANGED <<loginCalls, cacheBefore, loginRows, learnt>>
    /\ UNCHANGED <<storeVars, linkedin_logged_in, ws, total_updated, values, cols, updated>>
    /\ UNCHANGED <<run, startSheets, startCols, written, fetchFailed, opened, saveTried, booted, won, kept, edited>>

\* Attempt with the cache file written at once on a success.
AttemptFlushing ==
    /\ pc = "attempt"
    /\ LET idx == order[Len(tried) + 1]
       IN  /\ tried' = Append(tried, idx)
           /\ \E ok \in BOOLEAN :
                 IF ok
                 THEN /\ workday_cache' = CacheOnSuccess(workday_cache, tenant, idx)
                      /\ cacheFile' = save_workday_cache(CacheOnSuccess(workday_cache, tenant, idx))
                      /\ won' = DictSet(won, tenant, idx)
                      /\ loginResult' = "Success"
                      /\ pc' = "fetch"
                 ELSE /\ UNCHANGED <<workday_cache, won, cacheFile>>
                      /\ IF Len(tried) + 1 = Len(order)
                         THEN /\ loginResult' = "Failed"
                              /\ pc' = "fetch"
                         ELSE UNCHANGED <<loginResult, pc>>
    /\ UNCHANGED <<sheets, env, linkedin_logged_in, ws, total_updated, sheetVars>>
    /\ UNCHANGED <<url, domain, tenant, order, content, status>>
    /\ UNCHANGED <<run, startSheets, startCols, written, loginCalls, cacheBefore, loginRows, fetchFailed,
                   handled, opened, saveTried, booted, kept, learnt, edited>>

\* workday_try_login, lines 215-224: one pass of the loop over order.
Attempt ==
    /\ pc = "attempt"
    /\ LET idx == order[Len(tried) + 1]
       IN  /\ tried' = Append(tried, idx)
           /\ \E ok \in BOOLEAN :
                 IF ok
                 THEN /\ workday_cache' = CacheOnSuccess(workday_cache, tenant, idx)
                      /\ won' = DictSet(won, tenant, idx)
                      /\ loginResult' = "Success"
                      /\ pc' = "fetch"
                 ELSE /\ UNCHANGED <<workday_cache, won>>
                      /\ IF Len(tried) + 1 = Len(order)
                         THEN /\ loginResult' = "Failed"
                              /\ pc' = "fetch"
                         ELSE UNCHANGED <<loginResult, pc>>
    /\ UNCHANGED <<storeVars, linkedin_logged_in, ws, total_updated, sheetVars>>
    /\ UNCHANGED <<url, domain, tenant, order, content, status>>
    /\ UNCHANGED <<run, startSheets, startCols, written, loginCalls, cacheBefore, loginRows, fetchFailed,
                   handled, opened, saveTried, booted, kept, learnt, edited>>

\* process_worksheet, lines 354-360.
Fetch ==
    /\ pc = "fetch"
    /\ \E o \in FetchOutcomes :
          /\ content' = o.content
          /\ status' = IF o.ok THEN classify_status(o.content, domain)
                       ELSE <<"ERROR: ", o.kind>>
          /\ fetchFailed' = IF o.ok THEN fetchFailed ELSE fetchFailed \cup {<<ws, i>>}
    /\ pc' = "write"
    /\ UNCHANGED <<storeVars, mainVars, sheetVars>>
    /\ UNCHANGED <<url, domain, tenant, order, tried, loginResult>>
    /\ UNCHANGED <<run, startSheets, startCols, written, loginCalls, cacheBefore, loginRows,
                   handled, opened, saveTried, booted, won, kept, learnt, edited>>

\* process_worksheet, lines 362-366.
Write ==
    /\ pc = "write"
    /\ \E ok \in BOOLEAN :
          IF ok
          THEN /\ sheets' = [sheets EXCEPT
                               ![ws] = update_cell(@, sheet_row_idx(i), cols[2] + 1, status)]
               /\ written' = written \cup {<<ws, sheet_row_idx(i), cols[2] + 1>>}
               /\ updated' = updated + 1
               /\ i' = i + 1
               /\ handled' = handled \cup {<<ws, i>>}
               /\ pc' = "row"
          ELSE /\ pc' = "crashed"
               /\ UNCHANGED <<sheets, written, updated, i, handled>>
    /\ UNCHANGED <<cacheFile, env, mainVars, values, cols, rowVars>>
    /\ UNCHANGED <<run, startSheets, startCols, loginCalls, cacheBefore, loginRows, fetchFailed,
                   opened, saveTried, booted, won, kept, learnt, edited>>

\* EndSheet with the total set to the worksheet's count instead of raised by it.
EndSheetAssign ==
    /\ pc = "row"
    /\ i > Len(values) - 1
    /\ total_updated' = updated
    /\ ws' = ws + 1
    /\ pc' = "sheet"
    /\ UNCHANGED <<storeVars, workday_cache, linkedin_logged_in, sheetVars, rowVars, histVars>>

\* process_worksheet, line 368, and main, lines 392-393.
EndSheet ==
    /\ pc = "row"
    /\ i > Len(values) - 1
    /\ total_updated' = total_updated + updated
    /\ ws' = ws + 1
    /\ pc' = "sheet"
    /\ UNCHANGED <<storeVars, workday_cache, linkedin_logged_in, sheetVars, rowVars, histVars>>

\* main, lines 397-398, and save_workday_cache; a failed write leaves the old
\* file or a truncated one.
SaveCache ==
    /\ pc = "save"
    /\ saveTried' = TRUE
    /\ \E ok \in BOOLEAN :
          IF ok
          THEN /\ cacheFile' = save_workday_cache(workday_cache)
               /\ pc' = "done"
          ELSE /\ cacheFile' \in {cacheFile, FileCorrupt}
               /\ pc' = "crashed"
    /\ UNCHANGED <<sheets, env, mainVars, sheetVars, rowVars>>
    /\ UNCHANGED <<run, startSheets, startCols, written, loginCalls, cacheBefore, loginRows, fetchFailed,
                   handled, opened, booted, won, kept, learnt, edited>>

Next ==
    \/ StartRun
    \/ LinkedinLogin
    \/ OpenSheet
    \/ CloseBrowser
    \/ RowStart
    \/ Attempt
    \/ Fetch
    \/ Write
    \/ EndSheet
    \/ SaveCache

\* One run of main().
Spec == Init /\ [][Next]_vars


\* ------------------------------------------------------ claims, one run

\* The columns find_columns gives for worksheet s as it was when the run started.
StartCols(s) == startCols[s]

\* The worksheets whose header had both columns when the run started.
HasColumns(s) == LET c == StartCols(s) IN c[1] # -1 /\ c[2] # -1

\* The 1-based Decision column of worksheet s.
DecisionCol(s) == StartCols(s)[2] + 1

DataRows(s) == 2..Len(startSheets[s])

\* Row r of worksheet s differs from what it was, or a write to it is on record.
\* A row that is neither has kept every cell and is no target of a write.
Touched(s, r) ==
    \/ sheets[s][r] # startSheets[s][r]
    \/ \E w \in written : w[1] = s /\ w[2] = r

\* C1 as stated: a data row whose Decision cell is non-empty when the run starts
\* is never written: its Decision cell is no target of a write and keeps its value.
C1_NonEmptyNeverWritten ==
    \A s \in 1..Len(startSheets) :
        \A r \in DataRows(s) :
            Touched(s, r) =>
                LET found == StartCols(s)
                    c == found[2] + 1
                IN  (found[1] # -1 /\ found[2] # -1 /\ startSheets[s][r][c] # <<>>) =>
                        /\ <<s, r, c>> \notin written
                        /\ sheets[s][r][c] = startSheets[s][r][c]

\* C1 as amended: a data row whose Decision cell holds more than white space when
\* the run starts is never written.
C1_FilledNeverWritten ==
    \A s \in 1..Len(startSheets) :
        \A r \in DataRows(s) :
            Touched(s, r) =>
                LET found == StartCols(s)
                    c == found[2] + 1
                IN  (found[1] # -1 /\ found[2] # -1 /\ Strip(startSheets[s][r][c]) # <<>>) =>
                        /\ <<s, r, c>> \notin written
                        /\ sheets[s][r][c] = startSheets[s][r][c]

\* A filled row was passed over and the row after it was written.
C1_Witness ==
    \E s \in 1..Len(startSheets) :
        /\ HasColumns(s)
        /\ Len(startSheets[s]) >= 3
        /\ Strip(startSheets[s][2][DecisionCol(s)]) # <<>>
        /\ <<s, 1>> \in handled
        /\ <<s, 3, DecisionCol(s)>> \in written

IsPrefix(a, b) == Len(a) <= Len(b) /\ SubSeq(b, 1, Len(a)) = a

\* [c, other(c)] for a cached index c, [1, 2] without an entry.
ExpectedOrder(cache, t) ==
    IF DictHas(cache, t) THEN <<DictGet(cache, t), 3 - DictGet(cache, t)>> ELSE <<1, 2>>

\* C2 as stated: the indices one invocation of workday_try_login attempts are a
\* non-empty prefix of the order the cache at entry gives.
C2_NonEmptyPrefix ==
    /\ loginResult # "none" => IsPrefix(tried, ExpectedOrder(cacheBefore, tenant))
    /\ loginResult \in {"Success", "Failed"} => tried # <<>>

\* C2 as amended: the indices attempted are a prefix of the order the cache at
\* entry gives, non-empty once the invocation has returned whenever the Workday
\* credentials are configured.
C2_PrefixOfOrder ==
    /\ loginResult # "none" => IsPrefix(tried, ExpectedOrder(cacheBefore, tenant))
    /\ (loginResult \in {"Success", "Failed"} /\ env.workday) => tried # <<>>

\* The cache held acme -> 2, index 2 failed and index 1 was attempted after it.
C2_Witness ==
    /\ tenant = TenantAcme
    /\ DictHas(cacheBefore, TenantAcme)
    /\ DictGet(cacheBefore, TenantAcme) = 2
    /\ tried = <<2, 1>>

\* C4: the step in which an attempt with index idx succeeds sets cache[tenant] to
\* idx, leaves every other tenant's entry as it was and returns Success to the
\* row processor; no attempt follows in that invocation.
C4_SuccessStep ==
    [][ /\ (pc = "attempt" /\ loginResult' = "Success") =>
            LET idx == order[Len(tried) + 1]
            IN  /\ tried' = Append(tried, idx)
                /\ DictHas(workday_cache', tenant)
                /\ DictGet(workday_cache', tenant) = idx
                /\ DictKeys(workday_cache') = DictKeys(workday_cache) \cup {tenant}
                /\ \A k \in DictKeys(workday_cache) \ {tenant} :
                       DictGet(workday_cache', k) = DictGet(workday_cache, k)
                /\ pc' = "fetch"
        /\ (loginResult = "Success" /\ loginResult' = "Success") => tried' = tried
      ]_vars

\* An attempt for beta succeeded while the cache held an entry for acme.
C4_Witness ==
    /\ loginResult = "Success"
    /\ tenant = TenantBeta
    /\ DictHas(cacheBefore, TenantAcme)
    /\ DictHas(workday_cache, TenantAcme)
    /\ DictGet(workday_cache, TenantBeta) = tried[Len(tried)]

\* The row the latest workday_try_login was called for.
LoginRow == loginRows[Len(loginRows)]

BothFailed == loginResult = "Failed" /\ Len(tried) = 2

\* C5: after both candidates failed the cache is what it was at entry, and the
\* row is fetched and gets its label: once its handling is over, its Decision
\* cell has been written.
C5_BothFailedRowLabelled ==
    BothFailed =>
        /\ workday_cache = cacheBefore
        /\ \/ pc \in {"fetch", "write"}
           \/ <<LoginRow[1], sheet_row_idx(LoginRow[2]), DecisionCol(LoginRow[1])>> \in written

\* C6: every row whose page fetch failed gets an ERROR label in its Decision
\* cell and counts as updated, and the rows after it are handled.
C6_FetchFailureContained ==
    \A f \in fetchFailed :
        \/ (pc = "write" /\ f = <<ws, i>> /\ status[1] = "ERROR: ")
        \/ /\ <<f[1], sheet_row_idx(f[2]), DecisionCol(f[1])>> \in written
           /\ sheets[f[1]][sheet_row_idx(f[2])][DecisionCol(f[1])][1] = "ERROR: "
           /\ f \in handled
           /\ (f[1] = ws /\ pc \in {"row", "attempt", "fetch", "write"}) =>
                 updated >= Cardinality({g \in fetchFailed : g[1] = ws /\ g \in handled})

\* C7: a run that got past configuration and the browser launch does not exit
\* without having called save_workday_cache.
C7_SaveBeforeExit == (booted /\ pc \in {"done", "crashed"}) => saveTried

\* C8: when a run that got past configuration and the browser launch exits,
\* every worksheet has been opened and every data row of every worksheet with
\* both columns has been handled.
C8_NothingLeftOut ==
    (booted /\ pc \in {"done", "crashed"}) =>
        /\ opened = 1..Len(sheets)
        /\ \A s \in 1..Len(startSheets) :
               HasColumns(s) => \A r \in DataRows(s) : <<s, r - 1>> \in handled

RunRowKinds ==
    { [url |-> UrlAcme, decision |-> <<>>],
      [url |-> UrlBeta, decision |-> <<>>] }

\* One worksheet of Workday rows and one without any cell.
RunStores ==
    UNION { {<<TableOf(HeaderFull, rows), <<>>>> : rows \in [1..n -> RunRowKinds]} :
            n \in 1..MaxRows }

InitRuns ==
    /\ sheets \in RunStores
    /\ cacheFile \in InitFiles
    /\ env = [linkedin |-> TRUE, workday |-> TRUE]
    /\ run = 1
    /\ startSheets = sheets
    /\ startCols = ColumnsOf(sheets)
    /\ kept = <<>>
    /\ RunLocalInit

\* Between two runs the operator blanks one Decision cell, to have the row
\* classified again.
OperatorClears ==
    /\ pc \in {"done", "crashed"}
    /\ run < MaxRuns
    /\ ~edited
    /\ edited' = TRUE
    /\ \E s \in 1..Len(sheets) :
          /\ sheets[s] # <<>>
          /\ find_columns(sheets[s][1])[2] # -1
          /\ \E r \in 2..Len(sheets[s]) :
                LET c == find_columns(sheets[s][1])[2] + 1
                IN  /\ sheets[s][r][c] # <<>>
                    /\ sheets' = [sheets EXCEPT ![s][r][c] = <<>>]
    /\ UNCHANGED <<cacheFile, env, pc, mainVars, sheetVars, rowVars>>
    /\ UNCHANGED <<run, startSheets, startCols, written, loginCalls, cacheBefore, loginRows, fetchFailed,
                   handled, opened, saveTried, booted, won, kept, learnt>>

\* main() is started again (lines 401-402) after the process has exited.
NewRun ==
    /\ pc \in {"done", "crashed"}
    /\ run < MaxRuns
    /\ run' = run + 1
    /\ startSheets' = sheets
    /\ startCols' = ColumnsOf(sheets)
    /\ kept' = IF pc = "done" THEN won ELSE <<>>
    /\ pc' = "start"
    /\ workday_cache' = <<>>
    /\ linkedin_logged_in' = FALSE
    /\ ws' = 1
    /\ total_updated' = 0
    /\ values' = <<>>
    /\ cols' = <<-1, -1>>
    /\ i' = 1
    /\ updated' = 0
    /\ url' = <<>>
    /\ domain' = ""
    /\ tenant' = <<>>
    /\ order' = <<>>
    /\ tried' = <<>>
    /\ loginResult' = "none"
    /\ content' = <<>>
    /\ status' = <<>>
    /\ written' = {}
    /\ loginCalls' = NoCalls
    /\ cacheBefore' = <<>>
    /\ loginRows' = <<>>
    /\ fetchFailed' = {}
    /\ handled' = {}
    /\ opened' = {}
    /\ saveTried' = FALSE
    /\ booted' = FALSE
    /\ won' = <<>>
    /\ learnt' = 0
    /\ edited' = FALSE
    /\ UNCHANGED storeVars

NextRuns ==
    \/ Next
    \/ OperatorClears
    \/ NewRun

\* Runs of main() one after the other on the same record store and cache file.
SpecRuns == InitRuns /\ [][NextRuns]_vars

\* C3: when workday_try_login is entered for a tenant for which index k
\* succeeded earlier in this run, or in the previous run if that run finished,
\* the first attempt uses index k: an attempt fails for that tenant only if
\* index k itself is rejected.
C3_LearntIndexFirst ==
    (loginResult # "none" /\ learnt # 0 /\ tried # <<>>) => tried[1] = learnt

\* In the run after one that learnt beta -> 2 and finished, the first login for
\* beta attempts index 2 alone and succeeds.
C3_Witness ==
    /\ run = 2
    /\ DictHas(kept, TenantBeta)
    /\ DictGet(kept, TenantBeta) = 2
    /\ Len(loginRows) = 1
    /\ tenant = TenantBeta
    /\ learnt = 2
    /\ tried = <<2>>
    /\ loginResult = "Success"


\* --------------------------------------------------- classify_status alone

Domains ==
    {"linkedin", "workday", "greenhouse", "lever", "taleo", "smartrecruiters", "generic"}

SeqRange(q) == {q[k] : k \in 1..Len(q)}

\* What a page is assembled from: every phrase of every list, phrases as a page
\* capitalises them, and text that matches nothing.
Fragments ==
    SeqRange(CLOSED_PATTERNS) \cup SeqRange(LINKEDIN_REJECT_PATTERNS)
        \cup SeqRange(LINKEDIN_REVIEW_PATTERNS) \cup SeqRange(LINKEDIN_VIEWED_PATTERNS)
        \cup SeqRange(LINKEDIN_SUBMITTED_PATTERNS) \cup SeqRange(WORKDAY_REJECT_PATTERNS)
        \cup SeqRange(WORKDAY_INPROCESS_PATTERNS)
        \cup { <<"Not", " ", "Selected">>,
               <<"Your", " ", "Application", " ", "has", " ", "been", " ", "Viewed">>,
               <<"Position", " ", "Filled">>,
               <<"Welcome", " ", "back">>,
               <<"position", " ", "was", " ", "filled">> }

RECURSIVE Joined(_)
Joined(frags) ==
    IF frags = <<>> THEN <<>>
    ELSE IF Len(frags) = 1 THEN frags[1]
    ELSE frags[1] \o <<".", " ">> \o Joined(Tail(frags))

\* The page texts of up to MaxFrags fragments.
ClassifyTexts ==
    {Joined(f) : f \in UNION {[1..n -> Fragments] : n \in 0..MaxFrags}}

InitClassify ==
    /\ sheets = <<>>
    /\ cacheFile = FileAbsent
    /\ env = [linkedin |-> TRUE, workday |-> TRUE]
    /\ run = 1
    /\ startSheets = sheets
    /\ startCols = ColumnsOf(sheets)
    /\ kept = <<>>
    /\ workday_cache = <<>>
    /\ linkedin_logged_in = FALSE
    /\ ws = 1
    /\ total_updated = 0
    /\ values = <<>>
    /\ cols = <<-1, -1>>
    /\ i = 1
    /\ updated = 0
    /\ url = <<>>
    /\ tenant = <<>>
    /\ order = <<>>
    /\ tried = <<>>
    /\ loginResult = "none"
    /\ written = {}
    /\ loginCalls = NoCalls
    /\ cacheBefore = <<>>
    /\ loginRows = <<>>
    /\ fetchFailed = {}
    /\ handled = {}
    /\ opened = {}
    /\ saveTried = FALSE
    /\ booted = FALSE
    /\ won = <<>>
    /\ learnt = 0
    /\ edited = FALSE
    /\ pc = "classify"
    /\ content \in ClassifyTexts
    /\ domain \in Domains
    /\ status = <<>>

\* process_worksheet, line 358, on its own.
Classify ==
    /\ pc = "classify"
    /\ status' = classify_status(content, domain)
    /\ pc' = "classified"
    /\ UNCHANGED <<storeVars, mainVars, sheetVars, histVars>>
    /\ UNCHANGED <<url, domain, tenant, order, tried, loginResult, content>>

NextClassify == Classify

\* classify_status applied to one page text under one domain.
SpecClassify == InitClassify /\ [][NextClassify]_vars

\* The phrase p stands in the text t from position a on.
StandsAt(t, p, a) == \A k \in 1..Len(p) : t[a + k - 1] = p[k]

\* Some phrase of the list occurs in the lower-cased text.
Occurs(patterns, text) ==
    LET t == Lower(text)
    IN  \E j \in 1..Len(patterns) :
            \E a \in 1..(Len(t) - Len(patterns[j]) + 1) : StandsAt(t, patterns[j], a)

\* The categories of a domain in the order of their priority, each with its label.
Priority(d) ==
    IF d = "linkedin"
    THEN << <<LINKEDIN_REJECT_PATTERNS, <<"APPLICATION REJECTED (LinkedIn)">> >>,
            <<LINKEDIN_REVIEW_PATTERNS, <<"APPLICATION UNDER REVIEW (LinkedIn)">> >>,
            <<LINKEDIN_VIEWED_PATTERNS, <<"APPLICATION VIEWED (LinkedIn)">> >>,
            <<LINKEDIN_SUBMITTED_PATTERNS, <<"APPLICATION SUBMITTED (LinkedIn)">> >>,
            <<CLOSED_PATTERNS, <<"JOB CLOSED (LinkedIn)">> >> >>
    ELSE IF d = "workday"
    THEN << <<WORKDAY_REJECT_PATTERNS, <<"APPLICATION REJECTED (Workday)">> >>,
            <<WORKDAY_INPROCESS_PATTERNS, <<"APPLICATION IN PROCESS (Workday)">> >>,
            <<CLOSED_PATTERNS, <<"JOB CLOSED (Workday)">> >> >>
    ELSE << <<CLOSED_PATTERNS, <<"JOB CLOSED (", d, ")">> >> >>

UnknownLabel(d) ==
    IF d = "linkedin" THEN <<"UNKNOWN (LinkedIn)">>
    ELSE IF d = "workday" THEN <<"UNKNOWN (Workday)">>
    ELSE <<"UNKNOWN (", d, ")">>

\* C10: the label is that of the first category, in the priority of the domain,
\* of which a phrase occurs in the lower-cased text, whatever later categories
\* occur too; it is an UNKNOWN label exactly when none occurs.
C10_FirstCategoryWins ==
    pc = "classified" =>
        LET prio == Priority(domain)
            hits == {k \in 1..Len(prio) : Occurs(prio[k][1], content)}
        IN  IF hits = {}
            THEN status = UnknownLabel(domain)
            ELSE \A k \in hits : (\A j \in hits : k <= j) => status = prio[k][2]

\* A Workday page with a reject phrase and an in-process phrase is REJECTED.
C10_Witness ==
    /\ pc = "classified"
    /\ domain = "workday"
    /\ Occurs(WORKDAY_REJECT_PATTERNS, content)
    /\ Occurs(WORKDAY_INPROCESS_PATTERNS, content)
    /\ status = <<"APPLICATION REJECTED (Workday)">>

\* The phrase lists a domain has of its own, ahead of the closed phrases.
SpecificPatterns(d) ==
    IF d = "linkedin"
    THEN LINKEDIN_REJECT_PATTERNS \o LINKEDIN_REVIEW_PATTERNS
            \o LINKEDIN_VIEWED_PATTERNS \o LINKEDIN_SUBMITTED_PATTERNS
    ELSE IF d = "workday" THEN WORKDAY_REJECT_PATTERNS \o WORKDAY_INPROCESS_PATTERNS
    ELSE <<>>

ClosedLabel(d) ==
    IF d = "linkedin" THEN <<"JOB CLOSED (LinkedIn)">>
    ELSE IF d = "workday" THEN <<"JOB CLOSED (Workday)">>
    ELSE <<"JOB CLOSED (", d, ")">>

PositionHasBeenFilled == << <<"position", " ", "has", " ", "been", " ", "filled">> >>

\* C11: a text with "position has been filled" and none of the domain's own
\* phrases gets the JOB CLOSED label of the domain; a text with none of the
\* domain's own phrases and no closed phrase gets its UNKNOWN label; the label is
\* never empty.
C11_ClosedFallback ==
    pc = "classified" =>
        /\ status # <<>>
        /\ ~Occurs(SpecificPatterns(domain), content) =>
              /\ Occurs(PositionHasBeenFilled, content) => status = ClosedLabel(domain)
              /\ ~Occurs(CLOSED_PATTERNS, content) => status = UnknownLabel(domain)

\* A Greenhouse page that says "position has been filled" is JOB CLOSED (greenhouse).
C11_Witness ==
    /\ pc = "classified"
    /\ domain = "greenhouse"
    /\ Occurs(PositionHasBeenFilled, content)
    /\ status = <<"JOB CLOSED (", "greenhouse", ")">>


\* ------------------------------------- detect_domain and extract_workday_tenant alone

\* The state of a run that has not started, but for pc and the locals of a row.
IdleButRow ==
    /\ sheets = <<>>
    /\ cacheFile = FileAbsent
    /\ env = [linkedin |-> TRUE, workday |-> TRUE]
    /\ run = 1
    /\ startSheets = sheets
    /\ startCols = ColumnsOf(sheets)
    /\ kept = <<>>
    /\ workday_cache = <<>>
    /\ linkedin_logged_in = FALSE
    /\ ws = 1
    /\ total_updated = 0
    /\ values = <<>>
    /\ cols = <<-1, -1>>
    /\ i = 1
    /\ updated = 0
    /\ order = <<>>
    /\ tried = <<>>
    /\ loginResult = "none"
    /\ content = <<>>
    /\ status = <<>>
    /\ written = {}
    /\ loginCalls = NoCalls
    /\ cacheBefore = <<>>
    /\ loginRows = <<>>
    /\ fetchFailed = {}
    /\ handled = {}
    /\ opened = {}
    /\ saveTried = FALSE
    /\ booted = FALSE
    /\ won = <<>>
    /\ learnt = 0
    /\ edited = FALSE

DigitRuns == UNION {[1..n -> {"1", "3"}] : n \in 0..MaxDigits}

\* What follows the host name: nothing, a path, a path with a query that names
\* the site the posting was found on.
UrlTails ==
    { <<>>,
      <<"/", "job">>,
      <<"/", "job", "?", "src", "=", "LinkedIn", ".", "com">>,
      <<"/", "job", "?", "src", "=", "greenhouse", ".", "io">> }

\* URLs scheme://label.wd<digits>.site.tld<tail>, and URLs of other hosts.
ParseUrls ==
    { <<sch, lab, ".", w>> \o ds \o <<".", site, ".", "com">> \o tl :
        sch \in {"https://", "http://"}, lab \in {"acme", "Acme"}, w \in {"wd", "WD"},
        ds \in DigitRuns, site \in {"myworkdayjobs", "MyWorkdayJobs", "lever"}, tl \in UrlTails }
      \cup { <<"https://", "www", ".", "linkedin", ".", "com", "/", "jobs">>,
              <<"https://", "myworkdayjobs", ".", "com", "/", "job">>,
              <<>> }

InitParse ==
    /\ IdleButRow
    /\ pc = "parse"
    /\ url \in ParseUrls
    /\ domain = ""
    /\ tenant = <<>>

\* process_worksheet, lines 343 and 348, on their own.
ParseUrl ==
    /\ pc = "parse"
    /\ domain' = detect_domain(url)
    /\ tenant' = extract_workday_tenant(url)
    /\ pc' = "parsed"
    /\ UNCHANGED <<storeVars, mainVars, sheetVars, histVars>>
    /\ UNCHANGED <<url, order, tried, loginResult, content, status>>

NextParse == ParseUrl

\* detect_domain and extract_workday_tenant applied to one URL.
SpecParse == InitParse /\ [][NextParse]_vars

\* The URL is https://<tenant>.wd<digits>.myworkdayjobs.com, alone or followed by
\* a path, with n digits.
ShapedWith(u, n) ==
    /\ Len(u) >= 8 + n
    /\ u[1] = "https://"
    /\ u[2] # "."
    /\ u[3] = "."
    /\ u[4] = "wd"
    /\ \A k \in 5..(4 + n) : u[k] \in {"0", "1", "2", "3", "4", "5", "6", "7", "8", "9"}
    /\ u[5 + n] = "."
    /\ u[6 + n] = "myworkdayjobs"
    /\ u[7 + n] = "."
    /\ u[8 + n] = "com"
    /\ Len(u) > 8 + n => u[9 + n] = "/"

Shaped(u) == \E n \in 1..(MaxDigits + 1) : ShapedWith(u, n)

\* C12: a URL of the shape https://<tenant>.wd<digits>.myworkdayjobs.com/... is of
\* domain workday and gives <tenant>, whatever path and query follow; any other
\* URL gives no tenant.
C12_ShapedUrlIsWorkday ==
    pc = "parsed" =>
        IF Shaped(url)
        THEN domain = "workday" /\ tenant = <<url[2]>>
        ELSE tenant = <<>>


\* ------------------------------- save_workday_cache and load_workday_cache alone

\* The state of a run that has not started, but for pc, the cache and its file.
IdleButCache ==
    /\ sheets = <<>>
    /\ env = [linkedin |-> TRUE, workday |-> TRUE]
    /\ run = 1
    /\ startSheets = sheets
    /\ startCols = ColumnsOf(sheets)
    /\ kept = <<>>
    /\ linkedin_logged_in = FALSE
    /\ ws = 1
    /\ total_updated = 0
    /\ values = <<>>
    /\ cols = <<-1, -1>>
    /\ i = 1
    /\ updated = 0
    /\ url = <<>>
    /\ domain = ""
    /\ tenant = <<>>
    /\ order = <<>>
    /\ tried = <<>>
    /\ loginResult = "none"
    /\ content = <<>>
    /\ status = <<>>
    /\ written = {}
    /\ loginCalls = NoCalls
    /\ loginRows = <<>>
    /\ fetchFailed = {}
    /\ handled = {}
    /\ opened = {}
    /\ booted = FALSE
    /\ won = <<>>
    /\ learnt = 0
    /\ edited = FALSE

CacheTenants == {TenantAcme, TenantBeta, <<"Gamma", " ", "Co">>}

\* The dicts of up to MaxTenants entries, each tenant at most once.
CacheDicts ==
    UNION { {d \in [1..n -> CacheTenants \X {1, 2}] :
                \A a, b \in 1..n : a # b => d[a][1] # d[b][1]} : n \in 0..MaxTenants }

InitCache ==
    /\ IdleButCache
    /\ pc = "cache"
    /\ workday_cache \in CacheDicts
    /\ cacheFile \in {FileAbsent, FileCorrupt, FileOf(<< <<TenantBeta, 1>>, <<TenantAcme, 2>> >>)}
    /\ cacheBefore = <<>>
    /\ saveTried = FALSE

\* main, line 397, on its own; the process exits and its dict is gone.
SaveOnly ==
    /\ pc = "cache"
    /\ cacheFile' = save_workday_cache(workday_cache)
    /\ cacheBefore' = workday_cache
    /\ saveTried' = TRUE
    /\ workday_cache' = <<>>
    /\ pc' = "saved"
    /\ UNCHANGED <<sheets, env, linkedin_logged_in, ws, total_updated, sheetVars, rowVars>>
    /\ UNCHANGED <<run, startSheets, startCols, written, loginCalls, loginRows, fetchFailed,
                   handled, opened, booted, won, kept, learnt, edited>>

\* main, line 379, on its own.
LoadOnly ==
    /\ pc \in {"cache", "saved"}
    /\ workday_cache' = load_workday_cache(cacheFile)
    /\ pc' = "loaded"
    /\ UNCHANGED <<storeVars, linkedin_logged_in, ws, total_updated, sheetVars, rowVars, histVars>>

NextCache ==
    \/ SaveOnly
    \/ LoadOnly

\* save_workday_cache and load_workday_cache applied to one dict and one file.
SpecCache == InitCache /\ [][NextCache]_vars

\* Equal as Python dicts: the same keys with the same values.
SameMapping(a, b) ==
    /\ DictKeys(a) = DictKeys(b)
    /\ \A k \in DictKeys(a) : DictGet(a, k) = DictGet(b, k)

\* C13: a non-empty mapping of tenants to 1 or 2 that was saved is, once loaded,
\* the same mapping.
C13_RoundTrip ==
    (pc = "loaded" /\ saveTried /\ cacheBefore # <<>>) =>
        SameMapping(workday_cache, cacheBefore)

\* A mapping of two tenants with different indices was saved and loaded.
C13_Witness ==
    /\ pc = "loaded"
    /\ saveTried
    /\ Len(cacheBefore) = 2
    /\ cacheBefore[1][2] # cacheBefore[2][2]
    /\ Len(workday_cache) = 2


\* ------------------------------------------------ claims on the cache file in a run

\* main() is between load_workday_cache and save_workday_cache.
InRun == pc \in {"linkedin", "sheet", "row", "attempt", "fetch", "write", "save"}

C15_SaveFailureSilent == saveTried => pc = "done"


\* The run ended in the write of row i: its label was computed and its Decision
\* cell was not written.
RowAbandoned ==
    /\ pc = "crashed"
    /\ values # <<>>
    /\ i <= Len(values) - 1
    /\ status # <<>>

\* C16: without LinkedIn credentials linkedin_login returns Failed; without
\* Workday credentials workday_try_login returns Failed with no attempt and the
\* cache as it was; and the rows of the site whose login was skipped still get
\* their label written.
C16_MissingCredentialsSkipLogin ==
    /\ (~env.linkedin /\ booted /\ pc # "linkedin") => ~linkedin_logged_in
    /\ (~env.workday /\ loginResult # "none") =>
          /\ loginResult = "Failed"
          /\ tried = <<>>
          /\ workday_cache = cacheBefore
    /\ ((~env.linkedin /\ domain = "linkedin") \/ (~env.workday /\ domain = "workday")) =>
          ~RowAbandoned


\* No cell of the header is the name, whatever its case and the blanks around it.
HeaderLacks(header, name) == \A c \in 1..Len(header) : Lower(Strip(header[c])) # name

\* The table has a header row without a URL cell or without a Decision cell.
LacksColumn(table) ==
    /\ table # <<>>
    /\ HeaderLacks(table[1], <<"url">>) \/ HeaderLacks(table[1], <<"decision">>)

\* Nothing was done for worksheet s: no login, no failed fetch, no row handled,
\* no cell written or changed, and no row of it is being handled.
Untouched(s) ==
    /\ \A w \in written : w[1] # s
    /\ \A a \in 1..Len(loginRows) : loginRows[a][1] # s
    /\ \A f \in fetchFailed : f[1] # s
    /\ \A h \in handled : h[1] # s
    /\ sheets[s] = startSheets[s]
    /\ ws = s => pc \notin {"row", "attempt", "fetch", "write"}

\* The step that reads a worksheet without one of the columns passes to the next
\* worksheet with nothing counted and nothing else changed.
SkipStep ==
    (pc = "sheet" /\ ws <= Len(sheets) /\ LacksColumn(sheets[ws]) /\ pc' # "crashed") =>
        /\ pc' = "sheet"
        /\ ws' = ws + 1
        /\ total_updated' = total_updated
        /\ sheets' = sheets
        /\ written' = written
        /\ loginCalls' = loginCalls

\* C17: a worksheet whose header lacks the URL or the Decision column is skipped
\* entirely: no login, no fetch and no write happens for it, it adds 0 to the
\* count, and the run passes to the next worksheet.
C17_SheetWithoutColumnsSkipped ==
    /\ [](\A s \in 1..Len(startSheets) : LacksColumn(startSheets[s]) => Untouched(s))
    /\ [][SkipStep]_vars

\* The first worksheet has data rows and no Decision column, and a row of the
\* second worksheet has been written.
C17_Witness ==
    /\ LacksColumn(startSheets[1])
    /\ Len(startSheets[1]) >= 2
    /\ 1 \in opened
    /\ total_updated = 0
    /\ \E w \in written : w[1] = 2


\* The file still holds what the run loaded: the cache in memory is the file's
\* mapping with the entries the run has learnt put over it.
FileAsLoaded ==
    LET f == load_workday_cache(cacheFile)
    IN  /\ DictKeys(workday_cache) = DictKeys(f) \cup DictKeys(won)
        /\ \A k \in DictKeys(won) : DictGet(workday_cache, k) = DictGet(won, k)
        /\ \A k \in DictKeys(f) \ DictKeys(won) : DictGet(workday_cache, k) = DictGet(f, k)

\* The cache file is written in one step only: the call of save_workday_cache
\* that follows the last worksheet, made once.
FileWrittenAtEndOnly ==
    (cacheFile' # cacheFile \/ saveTried' # saveTried) =>
        /\ pc = "save"
        /\ ws > Len(sheets)
        /\ ~saveTried
        /\ saveTried'

\* C18: the cache file is written at most once in a run and only after every
\* worksheet; until then it holds what was loaded at the start, also when
\* successful logins have changed the cache in memory.
C18_CacheFileWrittenOnceAtEnd ==
    /\ [](InRun => FileAsLoaded)
    /\ [][FileWrittenAtEndOnly]_vars

\* A login has put acme in the cache in memory while there is no cache file.
C18_Witness ==
    /\ pc = "fetch"
    /\ cacheFile = FileAbsent
    /\ DictHas(workday_cache, TenantAcme)
    /\ loginResult = "Success"


\* The cells of the store, as <<worksheet, row, column>>, rows and columns 1-based.
Cells(store) ==
    UNION { UNION { {<<s, r, c>> : c \in 1..Len(store[s][r])} : r \in 1..Len(store[s]) } :
            s \in 1..Len(store) }

\* The URL cell of row r of worksheet s as it was when the run started.
StartUrl(s, r) == startSheets[s][r][StartCols(s)[1] + 1]


\* The store has the shape it had, every cell that differs from the start has
\* been written, and every written cell is the Decision cell of a data row that
\* had a URL and whose handling is over.
OnlyVisitedDecisionsWritten ==
    /\ Len(sheets) = Len(startSheets)
    /\ \A s \in 1..Len(sheets) :
           /\ Len(sheets[s]) = Len(startSheets[s])
           /\ \A r \in 1..Len(sheets[s]) :
                  sheets[s][r] # startSheets[s][r] =>
                      /\ Len(sheets[s][r]) = Len(startSheets[s][r])
                      /\ \A c \in 1..Len(sheets[s][r]) :
                             sheets[s][r][c] # startSheets[s][r][c] => <<s, r, c>> \in written
    /\ \A w \in written :
           LET c == StartCols(w[1])
           IN  /\ c[1] # -1
               /\ c[2] # -1
               /\ w[3] = c[2] + 1
               /\ w[2] \in DataRows(w[1])
               /\ Strip(startSheets[w[1]][w[2]][c[1] + 1]) # <<>>
               /\ <<w[1], w[2] - 1>> \in handled

\* A step that writes to the store writes one cell, not written before in the
\* run: the Decision cell of the row, one below the data index, whose URL is the
\* one that was visited.
WriteStep ==
    (sheets' # sheets \/ written' # written) =>
        LET target == <<ws, i + 1, DecisionCol(ws)>>
        IN  /\ pc = "write"
            /\ target \notin written
            /\ written' = written \cup {target}
            /\ url = Strip(StartUrl(ws, i + 1))
            /\ \A x \in Cells(sheets) \ {target} :
                   sheets'[x[1]][x[2]][x[3]] = sheets[x[1]][x[2]][x[3]]
            /\ sheets'[ws][i + 1][DecisionCol(ws)] = status

\* C19: in a run each Decision cell is written at most once, every write goes to
\* the Decision column of the row whose URL was visited (row = data index + 1),
\* and no other cell of any worksheet is changed.
C19_WriteTargetAndFrame ==
    /\ []OnlyVisitedDecisionsWritten
    /\ [][WriteStep]_vars

\* A finished run wrote the Decision cells of two rows.
C19_Witness ==
    /\ pc = "done"
    /\ Cardinality(written) = 2
    /\ \A w \in written : sheets[w[1]][w[2]][w[3]] # <<>>


\* The number of Decision cells written in worksheet s so far.
WrittenIn(s) == Cardinality({w \in written : w[1] = s})

RECURSIVE WrittenUpTo(_)
WrittenUpTo(n) == IF n = 0 THEN 0 ELSE WrittenIn(n) + WrittenUpTo(n - 1)

\* The counters follow the writes: in the row loop updated is the number of
\* cells written in the worksheet, and total_updated is the number written in
\* the worksheets before the current one.
CountersFollowWrites ==
    /\ pc \in {"row", "attempt", "fetch", "write"} => updated = WrittenIn(ws)
    /\ total_updated = WrittenUpTo(ws - 1)

\* C20 as stated: the counters follow the writes, and a worksheet that is done
\* has as many cells written as it had data rows with a non-empty URL and an
\* empty Decision.
C20_CountsRowsWithEmptyDecision ==
    /\ CountersFollowWrites
    /\ \A s \in 1..(ws - 1) :
           LET c == StartCols(s)
           IN  (c[1] # -1 /\ c[2] # -1) =>
                   WrittenIn(s) = Cardinality({r \in DataRows(s) :
                                      /\ startSheets[s][r][c[1] + 1] # <<>>
                                      /\ startSheets[s][r][c[2] + 1] = <<>>})

\* C20 as amended: the counters follow the writes, and a worksheet that is done
\* has as many cells written as it had data rows whose URL, stripped, is
\* non-empty and whose Decision, stripped, is empty.
C20_CountsRowsWithBlankDecision ==
    /\ CountersFollowWrites
    /\ \A s \in 1..(ws - 1) :
           LET c == StartCols(s)
           IN  (c[1] # -1 /\ c[2] # -1) =>
                   WrittenIn(s) = Cardinality({r \in DataRows(s) :
                                      /\ Strip(startSheets[s][r][c[1] + 1]) # <<>>
                                      /\ Strip(startSheets[s][r][c[2] + 1]) = <<>>})

\* A finished run wrote one cell in each of the two worksheets and counts two.
C20_Witness ==
    /\ pc = "done"
    /\ WrittenIn(1) = 1
    /\ WrittenIn(2) = 1
    /\ total_updated = 2

====
